---- MODULE Spec2Model ----
(***************************************************************************)
(* Listener.AI: audio capture and segmented transcription pipeline.        *)
(*                                                                         *)
(*   - GeminiService       segmented transcription with per-segment retry  *)
(*   - SimpleAudioRecorder recording session and its capture subprocess    *)
(*   - FFmpegManager       download of the FFmpeg binary                   *)
(*                                                                         *)
(* Strings built by the code are modelled as tuples of their parts, so     *)
(* that a header, a placeholder and a transcribed text stay distinct.      *)
(***************************************************************************)
EXTENDS Integers, Sequences, FiniteSets, Bags, TLC

\* ------------------------------------------------------------------------
\* Bounds of the model
\* ------------------------------------------------------------------------
MaxSegments == 3
MaxStarts == 2
MaxStops == 1
MaxChunks == 2
MaxDownloads == 2
MaxJobs == 2
\* files one split writes in the model of concurrent jobs
FilesPerSplit == 2
\* sizes of the chunks a response may deliver, and of a stale file left at
\* the final path
ChunkSizes == {400000, 700000}
StaleSize == 500000

\* ------------------------------------------------------------------------
\* Program constants
\* ------------------------------------------------------------------------
SegmentSeconds == 300
maxRetries == 3
BackoffBaseMs == 1000
BackoffCapMs == 10000
MinValidSize == 1000000
UploadThresholdMB == 20
MaxFilePolls == 30

NULL == "null"

Min(a, b) == IF a < b THEN a ELSE b

\* ========================================================================
\* GeminiService: transcription job
\* ========================================================================
VARIABLES
  jobPc,            \* position of transcribeAudio / transcribeWithTwoSteps
  fileSizeMB,       \* size of the source file
  duration,         \* result of getAudioDuration (0 when probing failed)
  splitCalls,       \* number of splitAudioIntoSegments invocations
  segmentFiles,     \* segment file list returned by splitAudioIntoSegments
  fileExists,       \* segment index -> the segment file is on disk
  seg,              \* segment index -> state of its transcribeSingleSegment task
  promises,         \* segment index -> settlement of the task's promise
  completedCount,   \* counter of the progress-tracking .then callbacks
  firstSettled,     \* <<i>> once task i was the first to settle
  progressLog,      \* percents passed to progressCallback, as <<num, den>>
  fileUri,          \* getShortAudioTranscript's fileUri ("" when not set)
  fileState,        \* file.state of the last ai.files.get
  retries,          \* the polling loop's counter
  fileGets,         \* number of ai.files.get calls issued
  submissions,      \* bag of the transcript generateContent calls issued
  fullTranscript,   \* merged transcript: sequence of segment contents
  summaryCalls,     \* number of summarization calls issued
  summaryText,      \* text of the summarization response
  result,           \* the TranscriptionResult returned
  jobError          \* which step raised the error that ended the job

uploadVars == <<fileUri, fileState, retries, fileGets>>

jobVars == <<jobPc, fileSizeMB, duration, splitCalls, segmentFiles,
             fileExists, seg, promises, completedCount, firstSettled,
             progressLog, uploadVars, submissions, fullTranscript,
             summaryCalls, summaryText, result, jobError>>


VARIABLES
  platform,          \* process.platform
  micAccess,         \* systemPreferences.getMediaAccessStatus('microphone')
  recordingProcess,  \* SimpleAudioRecorder.recordingProcess
  outputPath,        \* SimpleAudioRecorder.outputPath
  proc,              \* spawned capture subprocesses
  file,              \* output file of each start call
  startCall,         \* invocations of startRecording
  stopCall,          \* invocations of stopRecording
  isRecording        \* renderer flag

recVars == <<platform, micAccess, recordingProcess, outputPath, proc, file,
             startCall, stopCall, isRecording>>

VARIABLES
  arch,                \* process.arch
  dlPc,                \* call -> position of downloadFFmpeg / downloadFile
  downloadController,  \* FFmpegManager.downloadController
  tempFile,            \* ffmpeg.tmp in the FFmpeg directory
  finalFile,           \* the file at FFmpegManager.ffmpegPath
  fileStream,          \* call -> where the file its write stream opened is
  receivedBytes,       \* downloadFile's receivedBytes
  pending,             \* call -> bytes passed to fileStream.write, not yet on disk
  chunks,              \* number of 'data' events so far
  dlLog,               \* statuses passed to onProgress
  dlError,             \* message of the error downloadFFmpeg ended with
  cancelled,           \* call -> cancelDownload was called during its transfer
  finalTouched         \* call -> a step of it before its move changed the final file

dlVars == <<arch, dlPc, downloadController, tempFile, finalFile,
            fileStream, receivedBytes, pending, chunks, dlLog, dlError,
            cancelled, finalTouched>>

VARIABLES
  isPackaged,   \* app.isPackaged
  existing,     \* the paths at which fs.existsSync / fs.access find a file
  inPath,       \* `where ffmpeg` / `which ffmpeg` finds an ffmpeg on PATH
  ffmpegPath,   \* module variable of simpleAudioRecorder.ts, set at load
  resolved      \* the last resolution: which resolver, and the path returned

resVars == <<isPackaged, existing, inPath, ffmpegPath, resolved>>

VARIABLES
  tjPc,      \* transcribeAudio call -> its position
  tjSource,  \* call -> base name of the audio file it was given
  tjFiles,   \* call -> the segment files its readdirSync returned
  tjUnread,  \* call -> the segment files it has still to read
  disk,      \* segment path -> the call whose split created the file
  foreign    \* call -> how it has accessed segment files of another call

segVars == <<tjPc, tjSource, tjFiles, tjUnread, disk, foreign>>

SegIdx == 0 .. (MaxSegments - 1)

\* durations the probe may report: failure (0), short files, the threshold
\* itself, and long files of 2..MaxSegments segments (exact and inexact)
Durations ==
  {0, 150, SegmentSeconds}
    \cup {SegmentSeconds * k + 1 : k \in 1 .. (MaxSegments - 1)}
    \cup {SegmentSeconds * k : k \in 2 .. MaxSegments}

\* number of files the ffmpeg segmenter writes for segment_time = 300
SegmentCount(d) == (d + SegmentSeconds - 1) \div SegmentSeconds

N == Len(segmentFiles)

Pending == [status |-> "pending"]

\* formatTime: seconds -> HH:MM:SS
formatTime(seconds) ==
  <<seconds \div 3600, (seconds % 3600) \div 60, seconds % 60>>

\* `[Segment ${segmentIndex + 1}: ${from} ~ ${to}]`
createSegmentHeader(segmentIndex, startTime, endTime) ==
  [segmentNo |-> segmentIndex + 1,
   from |-> formatTime(startTime), to |-> formatTime(endTime)]

segmentStartTime(i) == i * SegmentSeconds
segmentEndTime(i, d) == Min(segmentStartTime(i) + SegmentSeconds, d)

\* what the transcription client can answer for segment i: the speech of
\* that segment, or nothing (result.text undefined -> '')
ClientTexts(i) == {<<"speech", i>>, <<>>}

\* the success return of transcribeSingleSegment
SuccessResult(i, d, text) ==
  [index |-> i,
   content |-> [kind |-> "text",
               header |-> createSegmentHeader(i, segmentStartTime(i), segmentEndTime(i, d)),
               text |-> text]]

FailureResultWrongIndex(i) ==
  [index |-> 0,
   content |-> [kind |-> "failed", segmentNo |-> i + 1, attempts |-> maxRetries]]

\* the return after the retry loop: the placeholder for this index
FailureResult(i) ==
  [index |-> i,
   content |-> [kind |-> "failed", segmentNo |-> i + 1, attempts |-> maxRetries]]

ExhaustedRethrows(i) == [status |-> "rejected"]

\* settlement of the task's promise once all attempts have failed
ExhaustedSettlement(i) == [status |-> "fulfilled", value |-> FailureResult(i)]

ShouldRetryOffByOne(attempt) == attempt <= maxRetries

\* `if (attempt < maxRetries)` in the catch block
ShouldRetry(attempt) == attempt < maxRetries

retryDelay(attempt) == Min(BackoffBaseMs * (2 ^ (attempt - 1)), BackoffCapMs)

\* catch block of one loop iteration
AfterFailure(s) ==
  IF ShouldRetry(s.attempt)
    THEN [s EXCEPT !.state = "Backoff", !.delay = retryDelay(s.attempt)]
    ELSE [s EXCEPT !.state = "Failed", !.delay = 0]

\* body of one loop iteration up to its await: readFileSync, then the
\* generateContent call is issued
BeginAttempt(s, readable) ==
  IF readable
    THEN [s EXCEPT !.state = "InFlight", !.calls = @ + 1, !.delay = 0]
    ELSE AfterFailure(s)

NewTask == [state |-> "Pending", attempt |-> 1, calls |-> 0, failed |-> 0,
            ok |-> 0, delay |-> 0, text |-> <<>>]

SortDescending(results) ==
  SortSeq(results, LAMBDA a, b : a.index > b.index)

\* segmentResults.sort((a, b) => a.index - b.index)
SortByIndex(results) ==
  SortSeq(results, LAMBDA a, b : a.index < b.index)

SegmentProgressRemaining(count, total) ==
  <<20 * total + 60 * (total - count), total>>

\* 20 + (completedCount / segmentFiles.length) * 60, as a fraction
SegmentProgress(count, total) == <<20 * total + 60 * count, total>>

Percent(p) == <<p, 1>>

Settled(i) == promises[i].status # "pending"
AllSettled == \A i \in 0 .. (N - 1) : Settled(i)
AnyRejected == \E i \in 0 .. (N - 1) : promises[i].status = "rejected"

\* size of the source file, as statSync reports it, in MB
FileSizesMB == {4, 90}

\* the audio files given to transcribeAudio: a short file of either size,
\* and one long file per duration (the large ones have large segments)
AudioFiles ==
  {<<d, s>> \in Durations \X FileSizesMB :
     \/ d <= SegmentSeconds
     \/ s = IF SegmentCount(d) % 2 = 0 THEN 90 ELSE 4}

\* ffmpeg -c copy cuts the stream into the segment files: each holds its
\* share of the bytes
segmentSizeMB(total) == fileSizeMB \div total

LongAudioInclusive(d) == d >= SegmentSeconds

\* the duration gate of transcribeWithTwoSteps: `if (duration > 300)`
LongAudio(d) == d > SegmentSeconds

\* `if (fileSizeInMB > 20)`
UseFilesApi(sizeMB) == sizeMB > UploadThresholdMB

FileStates == {"PROCESSING", "ACTIVE", "FAILED"}

\* `while (file.state === "PROCESSING" && retries < 30)`
KeepPolling(state, r) == state = "PROCESSING" /\ r < MaxFilePolls

FileReadyUnlessFailed(state) == state # "FAILED"

\* `if (file.state !== "ACTIVE") throw`
FileReady(state) == state = "ACTIVE"

\* a generateContent call for a transcript: which file, and how its audio
\* is passed
Submission(f, i, mode, sizeMB) ==
  [file |-> f, index |-> i, mode |-> mode, sizeMB |-> sizeMB]

\* the call of one segment attempt: readFileSync, base64, inlineData
SegmentSubmission(i, total) ==
  Submission("segment", i, "inlineData", segmentSizeMB(total))

\* the generateContent call of getShortAudioTranscript: `if (fileUri)`
ShortSubmission(uri) ==
  Submission("source", 0, IF uri # "" THEN "fileData" ELSE "inlineData",
             fileSizeMB)

\* the calls recorded so far, with one more
Submit(s) == submissions (+) SetToBag({s})

\* what the summarization call may answer (summaryResult.text || '')
SummaryResponses ==
  {"object", "jsonNull", "array", "brokenWithSummary", "brokenNoSummary"}

Undefined == <<"undefined">>

\* the initial value of summaryData
DefaultSummaryData ==
  [isNull |-> FALSE, summary |-> <<>>, keyPoints |-> <<>>,
   actionItems |-> <<>>]

\* JSON.parse(summaryText): the value, or thrown
JSONparse(text) ==
  CASE text = "object" ->
         [thrown |-> FALSE,
          value |-> [isNull |-> FALSE, summary |-> <<"summary">>,
                     keyPoints |-> <<"point">>, actionItems |-> <<"action">>]]
    [] text = "jsonNull" ->
         [thrown |-> FALSE,
          value |-> [isNull |-> TRUE, summary |-> Undefined,
                     keyPoints |-> Undefined, actionItems |-> Undefined]]
    [] text = "array" ->
         [thrown |-> FALSE,
          value |-> [isNull |-> FALSE, summary |-> Undefined,
                     keyPoints |-> Undefined, actionItems |-> Undefined]]
    [] OTHER -> [thrown |-> TRUE, value |-> DefaultSummaryData]

\* summaryText.match(/"summary"\s*:\s*"((?:[^"\\]|\\.)*)"/s)
summaryMatch(text) ==
  IF text = "brokenWithSummary" THEN <<"summary">> ELSE <<>>

\* the try/catch around JSON.parse: the parsed value, or the default
\* summaryData with the summary the text scan finds
ParseSummary(text) ==
  IF JSONparse(text).thrown
    THEN [DefaultSummaryData EXCEPT !.summary = summaryMatch(text)]
    ELSE JSONparse(text).value

NoResult ==
  [returned |-> FALSE, transcript |-> <<>>, summary |-> <<>>,
   keyPoints |-> <<>>, actionItems |-> <<>>]

\* the object transcribeWithTwoSteps returns
TranscriptionResult(transcript, data) ==
  [returned |-> TRUE, transcript |-> transcript, summary |-> data.summary,
   keyPoints |-> data.keyPoints, actionItems |-> data.actionItems]

SummaryPerSegment(transcript) ==
  [k \in 1 .. Len(transcript) |-> <<transcript[k]>>]

\* the summarization calls made for a transcript: one generateContent with
\* the prompt and the whole transcript
SummaryRequests(transcript) == <<transcript>>

JobInit ==
  /\ jobPc = "idle"
  /\ fileSizeMB \in FileSizesMB
  /\ duration = 0
  /\ splitCalls = 0
  /\ segmentFiles = <<>>
  /\ fileExists = [i \in SegIdx |-> FALSE]
  /\ seg = [i \in SegIdx |-> NewTask]
  /\ promises = [i \in SegIdx |-> Pending]
  /\ completedCount = 0
  /\ firstSettled = <<>>
  /\ progressLog = <<>>
  /\ fileUri = ""
  /\ fileState = NULL
  /\ retries = 0
  /\ fileGets = 0
  /\ submissions = EmptyBag
  /\ fullTranscript = <<>>
  /\ summaryCalls = 0
  /\ summaryText = NULL
  /\ result = NoResult
  /\ jobError = NULL

\* the catch blocks: the error propagates out of transcribeAudio
JobFails(step) ==
  /\ jobPc' = "error"
  /\ jobError' = step

\* transcribeAudio up to `await this.getAudioDuration`
TranscribeAudio ==
  /\ jobPc = "idle"
  /\ jobPc' = "probing"
  /\ progressLog' = Append(progressLog, Percent(15))
  /\ UNCHANGED <<fileSizeMB, duration, splitCalls, segmentFiles, fileExists,
                 seg, promises, completedCount, firstSettled, uploadVars,
                 submissions, fullTranscript, summaryCalls, summaryText,
                 result, jobError>>
  /\ UNCHANGED <<recVars, dlVars, resVars, segVars>>

\* getAudioDuration returns d; transcribeWithTwoSteps takes the duration
\* gate: the splitter is invoked, or getShortAudioTranscript runs up to
\* its first await (the upload of a large file, or the inline call)
ProbeDuration(d) ==
  /\ jobPc = "probing"
  /\ <<d, fileSizeMB>> \in AudioFiles
  /\ duration' = d
  /\ IF LongAudio(d)
       THEN /\ jobPc' = "splitting"
            /\ splitCalls' = splitCalls + 1
            /\ UNCHANGED <<progressLog, submissions>>
       ELSE IF UseFilesApi(fileSizeMB)
         THEN /\ jobPc' = "uploading"
              /\ progressLog' = progressLog \o <<Percent(20), Percent(25)>>
              /\ UNCHANGED <<splitCalls, submissions>>
         ELSE /\ jobPc' = "shortInFlight"
              /\ progressLog' = progressLog \o <<Percent(20), Percent(50)>>
              /\ submissions' = Submit(ShortSubmission(""))
              /\ UNCHANGED splitCalls
  /\ UNCHANGED <<fileSizeMB, segmentFiles, fileExists, seg, promises,
                 completedCount, firstSettled, uploadVars, fullTranscript,
                 summaryCalls, summaryText, result, jobError>>
  /\ UNCHANGED <<recVars, dlVars, resVars, segVars>>

\* ai.files.upload returns (uploadResult.uri may be missing) or throws;
\* the first ai.files.get is issued
UploadReturns(ok, uri) ==
  /\ jobPc = "uploading"
  /\ IF ok
       THEN /\ fileUri' = uri
            /\ fileGets' = fileGets + 1
            /\ jobPc' = "polling"
            /\ UNCHANGED jobError
       ELSE /\ JobFails("transcribe")
            /\ UNCHANGED <<fileUri, fileGets>>
  /\ UNCHANGED <<fileSizeMB, duration, splitCalls, segmentFiles, fileExists,
                 seg, promises, completedCount, firstSettled, progressLog,
                 fileState, retries, submissions, fullTranscript,
                 summaryCalls, summaryText, result>>
  /\ UNCHANGED <<recVars, dlVars, resVars, segVars>>

\* ai.files.get returns the file's state or throws: the loop condition,
\* then the 2 s wait, the state check, or 50 % and the generation call
FilesGetReturns(ok, state) ==
  /\ jobPc = "polling"
  /\ IF ~ok
       THEN /\ JobFails("transcribe")
            /\ UNCHANGED <<fileState, retries, progressLog, submissions>>
       ELSE LET r == IF fileGets > 1 THEN retries + 1 ELSE retries
            IN /\ fileState' = state
               /\ retries' = r
               /\ IF KeepPolling(state, r)
                    THEN /\ jobPc' = "pollWait"
                         /\ UNCHANGED <<progressLog, submissions, jobError>>
                  ELSE IF ~FileReady(state)
                    THEN /\ JobFails("transcribe")
                         /\ UNCHANGED <<progressLog, submissions>>
                  ELSE /\ jobPc' = "shortInFlight"
                       /\ progressLog' = Append(progressLog, Percent(50))
                       /\ submissions' = Submit(ShortSubmission(fileUri))
                       /\ UNCHANGED jobError
  /\ UNCHANGED <<fileSizeMB, duration, splitCalls, segmentFiles, fileExists,
                 seg, promises, completedCount, firstSettled, fileUri,
                 fileGets, fullTranscript, summaryCalls, summaryText, result>>
  /\ UNCHANGED <<recVars, dlVars, resVars, segVars>>

\* the 2 s timer of the polling loop fires: the next ai.files.get
PollTimer ==
  /\ jobPc = "pollWait"
  /\ jobPc' = "polling"
  /\ fileGets' = fileGets + 1
  /\ UNCHANGED <<fileSizeMB, duration, splitCalls, segmentFiles, fileExists,
                 seg, promises, completedCount, firstSettled, progressLog,
                 fileUri, fileState, retries, submissions, fullTranscript,
                 summaryCalls, summaryText, result, jobError>>
  /\ UNCHANGED <<recVars, dlVars, resVars, segVars>>

\* the promise of task i after its record became s2
SettlementOf(i, s2) ==
  IF s2.state = "Done"
    THEN [status |-> "fulfilled", value |-> SuccessResult(i, duration, s2.text)]
    ELSE IF s2.state = "Failed" THEN ExhaustedSettlement(i) ELSE Pending

\* task i moves to s2; a generateContent call it issued is recorded; when
\* that settles its promise the progress-tracking .then runs, and a
\* rejection rejects Promise.all and so the job
ApplyTask(i, s2) ==
  /\ seg' = [seg EXCEPT ![i] = s2]
  /\ submissions' = IF s2.calls > seg[i].calls
                      THEN Submit(SegmentSubmission(i, N))
                      ELSE submissions
  /\ promises' = [promises EXCEPT ![i] = SettlementOf(i, s2)]
  /\ IF SettlementOf(i, s2).status = "fulfilled"
       THEN /\ completedCount' = completedCount + 1
            /\ progressLog' =
                 Append(progressLog, SegmentProgress(completedCount + 1, N))
       ELSE UNCHANGED <<completedCount, progressLog>>
  /\ IF SettlementOf(i, s2).status # "pending"
       THEN firstSettled' = IF firstSettled = <<>> THEN <<i>> ELSE firstSettled
       ELSE UNCHANGED firstSettled
  /\ IF SettlementOf(i, s2).status = "rejected" /\ jobPc = "awaiting"
       THEN JobFails("segment")
       ELSE UNCHANGED <<jobPc, jobError>>

\* splitAudioIntoSegments returns, or throws after ffmpeg has written
\* `written` segment files; on return getSegmentedTranscript reports 20 %
\* and creates every task, each running to its first await
SplitDone(ok, written) ==
  /\ jobPc = "splitting"
  /\ written \in 0 .. SegmentCount(duration)
  /\ IF ok
       THEN /\ written = SegmentCount(duration)
            /\ jobPc' = "awaiting"
            /\ segmentFiles' = [k \in 1 .. written |-> k - 1]
            /\ fileExists' = [i \in SegIdx |-> i < written]
            /\ seg' = [i \in SegIdx |->
                        IF i < written
                          THEN BeginAttempt(NewTask, TRUE) ELSE NewTask]
            /\ submissions' = submissions (+)
                 SetToBag({SegmentSubmission(i, written) : i \in 0 .. (written - 1)})
            /\ progressLog' = Append(progressLog, Percent(20))
            /\ UNCHANGED jobError
       ELSE /\ JobFails("split")
            /\ fileExists' = [i \in SegIdx |-> i < written]
            /\ UNCHANGED <<segmentFiles, seg, submissions, progressLog>>
  /\ UNCHANGED <<fileSizeMB, duration, splitCalls, promises, completedCount,
                 firstSettled, uploadVars, fullTranscript, summaryCalls,
                 summaryText, result>>
  /\ UNCHANGED <<recVars, dlVars, resVars, segVars>>

\* the generateContent call of segment i returns text
TranscribeSucceeds(i, text) ==
  /\ i < N
  /\ seg[i].state = "InFlight"
  /\ ApplyTask(i, [seg[i] EXCEPT !.state = "Done", !.ok = 1, !.text = text])
  /\ UNCHANGED <<fileSizeMB, duration, splitCalls, segmentFiles, fileExists,
                 uploadVars, fullTranscript, summaryCalls, summaryText,
                 result>>
  /\ UNCHANGED <<recVars, dlVars, resVars, segVars>>

\* the generateContent call of segment i throws
TranscribeFails(i) ==
  /\ i < N
  /\ seg[i].state = "InFlight"
  /\ ApplyTask(i, AfterFailure([seg[i] EXCEPT !.failed = @ + 1]))
  /\ UNCHANGED <<fileSizeMB, duration, splitCalls, segmentFiles, fileExists,
                 uploadVars, fullTranscript, summaryCalls, summaryText,
                 result>>
  /\ UNCHANGED <<recVars, dlVars, resVars, segVars>>

\* the backoff timer of segment i fires: next loop iteration
RetryTimer(i) ==
  /\ i < N
  /\ seg[i].state = "Backoff"
  /\ ApplyTask(i, BeginAttempt([seg[i] EXCEPT !.attempt = @ + 1], fileExists[i]))
  /\ UNCHANGED <<fileSizeMB, duration, splitCalls, segmentFiles, fileExists,
                 uploadVars, fullTranscript, summaryCalls, summaryText,
                 result>>
  /\ UNCHANGED <<recVars, dlVars, resVars, segVars>>

\* Promise.all: the values in the order of the promises
SegmentResults == [k \in 1 .. N |-> promises[k - 1].value]

\* segmentTranscripts.join('\n\n---\n\n'): the contents, separator implied
Join(contents) == contents

\* Promise.all fulfils: sort, 80 %, clean up, join; back in
\* transcribeWithTwoSteps: 85 % and the summarization call is issued
MergeSegments ==
  /\ jobPc = "awaiting"
  /\ AllSettled
  /\ ~AnyRejected
  /\ fullTranscript' =
       Join([k \in 1 .. N |-> SortByIndex(SegmentResults)[k].content])
  /\ fileExists' = [i \in SegIdx |-> FALSE]
  /\ progressLog' = progressLog \o <<Percent(80), Percent(85)>>
  /\ summaryCalls' = summaryCalls + Len(SummaryRequests(fullTranscript'))
  /\ jobPc' = "summarizing"
  /\ UNCHANGED <<fileSizeMB, duration, splitCalls, segmentFiles, seg,
                 promises, completedCount, firstSettled, uploadVars,
                 submissions, summaryText, result, jobError>>
  /\ UNCHANGED <<recVars, dlVars, resVars, segVars>>

\* the single generateContent call of getShortAudioTranscript returns or
\* throws; on return 85 % and the summarization call is issued
ShortReturns(ok, text) ==
  /\ jobPc = "shortInFlight"
  /\ IF ok
       THEN /\ fullTranscript' = <<[kind |-> "whole", text |-> text]>>
            /\ progressLog' = Append(progressLog, Percent(85))
            /\ summaryCalls' =
                 summaryCalls + Len(SummaryRequests(fullTranscript'))
            /\ jobPc' = "summarizing"
            /\ UNCHANGED jobError
       ELSE /\ JobFails("transcribe")
            /\ UNCHANGED <<fullTranscript, progressLog, summaryCalls>>
  /\ UNCHANGED <<fileSizeMB, duration, splitCalls, segmentFiles, fileExists,
                 seg, promises, completedCount, firstSettled, uploadVars,
                 submissions, summaryText, result>>
  /\ UNCHANGED <<recVars, dlVars, resVars, segVars>>

\* the summarization call returns text or throws: JSON.parse with its
\* fallback, 95 %, and the result is built from the fields of summaryData
\* (reading a field of null throws)
SummarizeReturns(ok, text) ==
  /\ jobPc = "summarizing"
  /\ IF ~ok
       THEN /\ JobFails("summarize")
            /\ UNCHANGED <<progressLog, summaryText, result>>
       ELSE /\ summaryText' = text
            /\ progressLog' = Append(progressLog, Percent(95))
            /\ IF ParseSummary(text).isNull
                 THEN /\ JobFails("summarize")
                      /\ UNCHANGED result
                 ELSE /\ jobPc' = "done"
                      /\ result' = TranscriptionResult(fullTranscript,
                                                       ParseSummary(text))
                      /\ UNCHANGED jobError
  /\ UNCHANGED <<fileSizeMB, duration, splitCalls, segmentFiles, fileExists,
                 seg, promises, completedCount, firstSettled, uploadVars,
                 submissions, fullTranscript, summaryCalls>>
  /\ UNCHANGED <<recVars, dlVars, resVars, segVars>>

JobNext ==
  \/ TranscribeAudio
  \/ \E d \in Durations : ProbeDuration(d)
  \/ \E ok \in BOOLEAN : \E uri \in {"uri", ""} : UploadReturns(ok, uri)
  \/ \E ok \in BOOLEAN : \E state \in FileStates : FilesGetReturns(ok, state)
  \/ PollTimer
  \/ \E ok \in BOOLEAN : \E written \in 0 .. MaxSegments : SplitDone(ok, written)
  \/ \E i \in SegIdx : \E text \in ClientTexts(i) : TranscribeSucceeds(i, text)
  \/ \E i \in SegIdx : TranscribeFails(i)
  \/ \E i \in SegIdx : RetryTimer(i)
  \/ MergeSegments
  \/ \E ok \in BOOLEAN : ShortReturns(ok, <<"speech", 0>>)
  \/ \E ok \in BOOLEAN : \E text \in SummaryResponses : SummarizeReturns(ok, text)

\* ========================================================================
\* SimpleAudioRecorder and the renderer's record button
\* ========================================================================

\* start call c spawns subprocess c and records to file c
\* `null` for a process handle or a path; `null` for exitCode
NoId == 0
NoExit == -1

CallIds == 1 .. MaxStarts
StopIds == 1 .. MaxStops

NoProc == [state |-> "unspawned", exitCode |-> NoExit, gotQ |-> FALSE,
           killedBy |-> NoId]

NoStart == [pc |-> "none", startupError |-> FALSE, processStarted |-> FALSE,
            success |-> FALSE, filePath |-> NoId, activeAtEntry |-> FALSE,
            sawStartupError |-> FALSE, emptyList |-> FALSE,
            audioDevice |-> ""]

\* the audio devices the list-devices run of ffmpeg may report
DeviceLists == {<<>>, <<"USB Microphone">>}

\* detectAudioDevice (macOS): throws when the parsed list is empty
detectAudioDevice(devices) ==
  IF Len(devices) = 0
    THEN [thrown |-> TRUE, device |-> ""]
    ELSE [thrown |-> FALSE, device |-> devices[1]]

\* detectWindowsAudioDevice: the throw for an empty list is caught by the
\* function's own catch block, which returns 'audio="Microphone"'
detectWindowsAudioDevice(devices) ==
  IF Len(devices) = 0
    THEN [thrown |-> FALSE, device |-> "Microphone"]
    ELSE [thrown |-> FALSE, device |-> devices[1]]

\* the device resolution of startRecording on a platform that enumerates
ResolveDevice(devices) ==
  IF platform = "darwin" THEN detectAudioDevice(devices)
                         ELSE detectWindowsAudioDevice(devices)

NoStop == [pc |-> "none", target |-> NoId, timer |-> FALSE,
           success |-> FALSE, filePath |-> NoId, error |-> NULL,
           fileAtReturn |-> NULL, abnormalExitAtCall |-> FALSE,
           graceAtArm |-> {}]

RecInit ==
  /\ platform \in {"darwin", "win32", "linux"}
  /\ micAccess \in {"granted", "denied", "not-determined"}
  /\ platform # "darwin" => micAccess = "granted"
  /\ recordingProcess = NoId
  /\ outputPath = NoId
  /\ proc = [p \in CallIds |-> NoProc]
  /\ file = [p \in CallIds |-> "missing"]
  /\ startCall = [c \in CallIds |-> NoStart]
  /\ stopCall = [s \in StopIds |-> NoStop]
  /\ isRecording = FALSE

Running(p) == p # NoId /\ proc[p].state = "running"

\* ChildProcess.killed: a signal was sent to the subprocess (by stop call
\* killedBy)
killed(p) == proc[p].killedBy # NoId

\* fs.existsSync(this.outputPath)
FileFound(path) == path # NoId /\ file[path] # "missing"

\* the session the recorder holds is live
SessionActive == Running(recordingProcess)

\* the renderer's handling of the start result
RendererAfterStart(success) == IF success THEN TRUE ELSE isRecording

\* the renderer's handling of the stop result
RendererAfterStop(success) == IF success THEN FALSE ELSE isRecording

StartFailed(c) ==
  [startCall[c] EXCEPT !.pc = "returned", !.success = FALSE]

\* spawn(ffmpegPath, args), handlers registered, then the 500 ms wait
Spawn(c) ==
  /\ recordingProcess' = c
  /\ proc' = [proc EXCEPT ![c].state = "running"]

\* record button clicked while the renderer believes nothing is recording:
\* startRecording runs up to its first await
StartRecording(c, ffmpegFound) ==
  /\ ~isRecording
  /\ startCall[c].pc = "none"
  /\ \A b \in CallIds : b < c => startCall[b].pc # "none"
  /\ LET entered == [startCall[c] EXCEPT !.activeAtEntry = SessionActive]
     IN
     IF platform = "darwin" /\ micAccess = "denied"
       THEN /\ startCall' = [startCall EXCEPT ![c] =
                              [entered EXCEPT !.pc = "returned"]]
            /\ UNCHANGED <<recordingProcess, outputPath, proc>>
     ELSE IF platform = "darwin" /\ micAccess = "not-determined"
       THEN /\ startCall' = [startCall EXCEPT ![c] =
                              [entered EXCEPT !.pc = "permission"]]
            /\ UNCHANGED <<recordingProcess, outputPath, proc>>
     ELSE /\ outputPath' = c
          /\ IF ~ffmpegFound
               THEN /\ startCall' = [startCall EXCEPT ![c] =
                                      [entered EXCEPT !.pc = "returned"]]
                    /\ UNCHANGED <<recordingProcess, proc>>
             ELSE IF platform = "linux"
               THEN /\ startCall' = [startCall EXCEPT ![c] =
                                      [entered EXCEPT !.pc = "grace"]]
                    /\ Spawn(c)
             ELSE /\ startCall' = [startCall EXCEPT ![c] =
                                    [entered EXCEPT !.pc = "device"]]
                  /\ UNCHANGED <<recordingProcess, proc>>
  /\ UNCHANGED <<platform, micAccess, file, stopCall, isRecording>>
  /\ UNCHANGED <<jobVars, dlVars, resVars, segVars>>

\* askForMediaAccess resolves
PermissionAnswered(c, granted, ffmpegFound) ==
  /\ startCall[c].pc = "permission"
  /\ micAccess' = IF granted THEN "granted" ELSE "denied"
  /\ IF ~granted
       THEN /\ startCall' = [startCall EXCEPT ![c] = StartFailed(c)]
            /\ UNCHANGED outputPath
       ELSE /\ outputPath' = c
            /\ startCall' = [startCall EXCEPT ![c] =
                 IF ffmpegFound THEN [startCall[c] EXCEPT !.pc = "device"]
                                ELSE StartFailed(c)]
  /\ UNCHANGED <<platform, recordingProcess, proc, file, stopCall,
                 isRecording>>
  /\ UNCHANGED <<jobVars, dlVars, resVars, segVars>>

\* detectAudioDevice / detectWindowsAudioDevice resolves or throws; on a
\* device the subprocess is spawned
DeviceDetected(c, devices) ==
  /\ startCall[c].pc = "device"
  /\ IF ResolveDevice(devices).thrown
       THEN /\ startCall' = [startCall EXCEPT ![c] =
                 [StartFailed(c) EXCEPT !.emptyList = Len(devices) = 0]]
            /\ UNCHANGED <<recordingProcess, proc>>
       ELSE /\ startCall' = [startCall EXCEPT ![c] =
                 [@ EXCEPT !.pc = "grace", !.emptyList = Len(devices) = 0,
                           !.audioDevice = ResolveDevice(devices).device]]
            /\ Spawn(c)
  /\ UNCHANGED <<platform, micAccess, outputPath, file, stopCall,
                 isRecording>>
  /\ UNCHANGED <<jobVars, dlVars, resVars, segVars>>

\* the 500 ms timer of start call c fires: the checks after the wait
GraceTimer(c) ==
  /\ startCall[c].pc = "grace"
  /\ LET ok == /\ ~startCall[c].startupError
               /\ recordingProcess # NoId
               /\ ~killed(recordingProcess)
               /\ proc[recordingProcess].exitCode = NoExit
     IN
     /\ startCall' = [startCall EXCEPT ![c] =
                       [@ EXCEPT !.pc = "returned", !.success = ok,
                                 !.filePath = IF ok THEN outputPath ELSE NoId,
                                 !.sawStartupError = startCall[c].startupError,
                                 !.startupError = FALSE,
                                 !.processStarted = FALSE]]
     /\ recordingProcess' = IF ok THEN recordingProcess ELSE NoId
     /\ isRecording' = RendererAfterStart(ok)
  /\ UNCHANGED <<platform, micAccess, outputPath, proc, file, stopCall>>
  /\ UNCHANGED <<jobVars, dlVars, resVars, segVars>>

\* 'error' event of the subprocess: it could not be spawned
ProcSpawnError(p) ==
  /\ Running(p)
  /\ startCall[p].pc = "grace"
  /\ file[p] = "missing"
  /\ ~startCall[p].processStarted
  /\ ~proc[p].gotQ /\ ~killed(p)
  /\ proc' = [proc EXCEPT ![p].state = "spawnerror"]
  /\ startCall' = [startCall EXCEPT ![p].startupError = TRUE]
  /\ UNCHANGED <<platform, micAccess, recordingProcess, outputPath, file,
                 stopCall, isRecording>>
  /\ UNCHANGED <<jobVars, dlVars, resVars, segVars>>

\* stderr data: the version banner, or one of the recognised error texts
ProcStderr(p, isError) ==
  /\ Running(p)
  /\ startCall[p].pc = "grace"
  /\ IF isError
       THEN ~startCall[p].startupError
            /\ startCall' = [startCall EXCEPT ![p].startupError = TRUE]
       ELSE ~startCall[p].processStarted
            /\ startCall' = [startCall EXCEPT ![p].processStarted = TRUE]
  /\ UNCHANGED <<platform, micAccess, recordingProcess, outputPath, proc,
                 file, stopCall, isRecording>>
  /\ UNCHANGED <<jobVars, dlVars, resVars, segVars>>

\* ffmpeg opens its output file (-y), then writes encoded audio
ProcWritesFile(p) ==
  /\ Running(p)
  /\ file[p] # "nonempty"
  /\ file' = [file EXCEPT ![p] = IF @ = "missing" THEN "empty" ELSE "nonempty"]
  /\ UNCHANGED <<platform, micAccess, recordingProcess, outputPath, proc,
                 startCall, stopCall, isRecording>>
  /\ UNCHANGED <<jobVars, dlVars, resVars, segVars>>

\* the check at the end of stopRecording
stopResult(s, path) ==
  IF FileFound(path)
    THEN [s EXCEPT !.pc = "returned", !.success = TRUE, !.filePath = path,
                   !.fileAtReturn = file[path]]
    ELSE [s EXCEPT !.pc = "returned", !.success = FALSE,
                   !.error = "Recording file not found"]

\* the subprocess exits and 'close' is emitted: the close handler of its
\* start call runs, and every stopRecording waiting on it resumes
ProcExit(p, code) ==
  /\ Running(p)
  /\ code = 0 => proc[p].gotQ
  /\ proc' = [proc EXCEPT ![p].state = "exited", ![p].exitCode = code]
  /\ startCall' = [startCall EXCEPT ![p].startupError =
                     @ \/ (/\ startCall[p].pc = "grace"
                           /\ code # 0
                           /\ ~startCall[p].processStarted)]
  /\ LET resumed == {s \in StopIds :
                       stopCall[s].pc = "waiting" /\ stopCall[s].target = p}
     IN
     /\ stopCall' = [s \in StopIds |->
                      IF s \in resumed THEN stopResult(stopCall[s], outputPath)
                                       ELSE stopCall[s]]
     /\ recordingProcess' = IF resumed # {} THEN NoId ELSE recordingProcess
     /\ isRecording' =
          IF resumed # {} THEN RendererAfterStop(FileFound(outputPath))
                          ELSE isRecording
  /\ UNCHANGED <<platform, micAccess, outputPath, file>>
  /\ UNCHANGED <<jobVars, dlVars, resVars, segVars>>

\* record button clicked while the renderer believes a recording runs:
\* stopRecording up to its await
StopRecording(s) ==
  /\ isRecording
  /\ stopCall[s].pc = "none"
  /\ \A b \in StopIds : b < s => stopCall[b].pc # "none"
  /\ IF recordingProcess = NoId
       THEN /\ stopCall' = [stopCall EXCEPT ![s] =
                 [@ EXCEPT !.pc = "returned", !.success = FALSE,
                           !.error = "No recording in progress"]]
            /\ UNCHANGED proc
       ELSE /\ stopCall' = [stopCall EXCEPT ![s] =
                 [@ EXCEPT !.pc = "waiting", !.target = recordingProcess,
                           !.timer = TRUE,
                           !.graceAtArm =
                              {c \in CallIds : startCall[c].pc = "grace"},
                           !.abnormalExitAtCall =
                              /\ proc[recordingProcess].state = "exited"
                              /\ proc[recordingProcess].exitCode # 0]]
            /\ proc' = [proc EXCEPT ![recordingProcess].gotQ =
                          @ \/ Running(recordingProcess)]
  /\ UNCHANGED <<platform, micAccess, recordingProcess, outputPath, file,
                 startCall, isRecording>>
  /\ UNCHANGED <<jobVars, dlVars, resVars, segVars>>

\* the process `this.recordingProcess?.kill('SIGTERM')` signals when the
\* timer fires: whatever the recorder holds at that moment, if it runs
KillTarget(s) == IF Running(recordingProcess) THEN recordingProcess ELSE NoId

\* the 2 s fallback timer armed by stop call s fires
StopTimer(s) ==
  /\ stopCall[s].timer
  \* a 500 ms timer armed before this 2 s timer has fired before it
  /\ \A c \in stopCall[s].graceAtArm : startCall[c].pc # "grace"
  /\ proc' = IF KillTarget(s) # NoId
               THEN [proc EXCEPT ![KillTarget(s)].killedBy = s]
               ELSE proc
  /\ IF stopCall[s].pc = "waiting"
       THEN /\ stopCall' = [stopCall EXCEPT ![s] =
                 [stopResult(stopCall[s], outputPath) EXCEPT !.timer = FALSE]]
            /\ recordingProcess' = NoId
            /\ isRecording' = RendererAfterStop(FileFound(outputPath))
       ELSE /\ stopCall' = [stopCall EXCEPT ![s].timer = FALSE]
            /\ UNCHANGED <<recordingProcess, isRecording>>
  /\ UNCHANGED <<platform, micAccess, outputPath, file, startCall>>
  /\ UNCHANGED <<jobVars, dlVars, resVars, segVars>>

RecNext ==
  \/ \E c \in CallIds : \E found \in BOOLEAN : StartRecording(c, found)
  \/ \E c \in CallIds : \E granted, found \in BOOLEAN :
       PermissionAnswered(c, granted, found)
  \/ \E c \in CallIds : \E devices \in DeviceLists : DeviceDetected(c, devices)
  \/ \E c \in CallIds : GraceTimer(c)
  \/ \E p \in CallIds : ProcSpawnError(p)
  \/ \E p \in CallIds : \E isError \in BOOLEAN : ProcStderr(p, isError)
  \/ \E p \in CallIds : ProcWritesFile(p)
  \/ \E p \in CallIds : \E code \in {0, 1} : ProcExit(p, code)
  \/ \E s \in StopIds : StopRecording(s)
  \/ \E s \in StopIds : StopTimer(s)


\* ========================================================================
\* FFmpegManager: download of the FFmpeg binary
\* ========================================================================
FFMPEG_RELEASES ==
  {<<"darwin", "x64">>, <<"darwin", "arm64">>, <<"win32", "x64">>,
   <<"linux", "x64">>}

\* getRelease: architecture mapping, then the lookup; NULL when none
getRelease(plat, a) ==
  LET targetArch == IF a \in {"ia32", "x32"} THEN "x64" ELSE a
  IN IF <<plat, targetArch>> \in FFMPEG_RELEASES
       THEN <<plat, targetArch>> ELSE NULL

\* invocations of downloadFFmpeg
DlIds == 1 .. MaxDownloads

NoFile == [exists |-> FALSE, exec |-> FALSE, size |-> 0]

\* `downloadController: AbortController | null = null`; owner is the
\* downloadFile call that created the controller
NoController == [owner |-> NoId, aborted |-> FALSE]

\* isFFmpegValid on a file: fs.access(X_OK), then stats.size > 1000000
\* (on Windows X_OK only tests that the file exists)
Valid(f) ==
  f.exists /\ (platform = "win32" \/ f.exec) /\ f.size > MinValidSize

isFFmpegValid == Valid(finalFile)

\* a binary that an earlier download installed
InstalledBinary == [exists |-> TRUE, exec |-> TRUE, size |-> MinValidSize + 1]

DlInit ==
  /\ arch \in {"x64", "arm64", "ia32"}
  /\ dlPc = [d \in DlIds |-> "idle"]
  /\ downloadController = NoController
  /\ tempFile = NoFile
  /\ finalFile \in {NoFile, InstalledBinary,
                     [exists |-> TRUE, exec |-> TRUE, size |-> StaleSize]}
  /\ fileStream = [d \in DlIds |-> "none"]
  /\ receivedBytes = [d \in DlIds |-> 0]
  /\ pending = [d \in DlIds |-> 0]
  /\ chunks = [d \in DlIds |-> 0]
  /\ dlLog = [d \in DlIds |-> <<>>]
  /\ dlError = [d \in DlIds |-> NULL]
  /\ cancelled = [d \in DlIds |-> FALSE]
  /\ finalTouched = [d \in DlIds |-> FALSE]

InProgress(d) == dlPc[d] \notin {"idle", "complete", "failed"}

\* the request of call d has been sent and its response has not ended
InTransfer(d) == dlPc[d] \in {"requesting", "transferring"}

DlFailUnreported(d, msg) ==
  /\ dlPc' = [dlPc EXCEPT ![d] = "failed"]
  /\ dlError' = [dlError EXCEPT ![d] = msg]
  /\ UNCHANGED dlLog

\* the catch block of downloadFFmpeg: report 'error', rethrow; the
\* 'download-ffmpeg' handler returns {success: false, error}
DlFail(d, msg) ==
  /\ dlPc' = [dlPc EXCEPT ![d] = "failed"]
  /\ dlError' = [dlError EXCEPT ![d] = msg]
  /\ dlLog' = [dlLog EXCEPT ![d] = Append(@, "error")]

Report(d, status) == dlLog' = [dlLog EXCEPT ![d] = Append(@, status)]

\* 'download-ffmpeg' invoked by the download dialog, which the renderer
\* opens when check-ffmpeg reports no FFmpeg; runs up to `await ensureDir`
DownloadFFmpeg(d) ==
  /\ dlPc[d] = "idle"
  /\ \A b \in DlIds : b < d => dlPc[b] # "idle"
  /\ ~isFFmpegValid
  /\ IF getRelease(platform, arch) = NULL
       THEN DlFail(d, "No FFmpeg release available")
       ELSE /\ dlPc' = [dlPc EXCEPT ![d] = "preparing"]
            /\ Report(d, "preparing")
            /\ UNCHANGED dlError
  /\ UNCHANGED <<arch, downloadController, tempFile, finalFile, fileStream,
                 receivedBytes, pending, chunks, cancelled, finalTouched>>
  /\ UNCHANGED <<jobVars, recVars, resVars, segVars>>

\* ensureDir done; downloadFile creates the AbortController and sends the
\* request
EnsureDirDone(d) ==
  /\ dlPc[d] = "preparing"
  /\ dlPc' = [dlPc EXCEPT ![d] = "requesting"]
  /\ downloadController' = [owner |-> d, aborted |-> FALSE]
  /\ receivedBytes' = [receivedBytes EXCEPT ![d] = 0]
  /\ UNCHANGED <<arch, tempFile, finalFile, fileStream, pending, chunks,
                 dlLog, dlError, cancelled, finalTouched>>
  /\ UNCHANGED <<jobVars, recVars, resVars, segVars>>

\* request 'error' event
RequestError(d) ==
  /\ dlPc[d] = "requesting"
  /\ DlFail(d, "net error")
  /\ UNCHANGED <<arch, downloadController, tempFile, finalFile, fileStream,
                 receivedBytes, pending, chunks, cancelled, finalTouched>>
  /\ UNCHANGED <<jobVars, recVars, resVars, segVars>>

\* 'response' event: non-200 rejects, 200 opens the write stream on
\* ffmpeg.tmp (created, or truncated when it is there already)
Response(d, statusCode) ==
  /\ dlPc[d] = "requesting"
  /\ IF statusCode # 200
       THEN /\ DlFail(d, "Download failed with status")
            /\ UNCHANGED <<tempFile, fileStream>>
       ELSE /\ dlPc' = [dlPc EXCEPT ![d] = "transferring"]
            /\ tempFile' = [exists |-> TRUE, exec |-> FALSE, size |-> 0]
            /\ fileStream' = [fileStream EXCEPT ![d] = "temp"]
            /\ UNCHANGED <<dlLog, dlError>>
  /\ UNCHANGED <<arch, downloadController, finalFile, receivedBytes,
                 pending, chunks, cancelled, finalTouched>>
  /\ UNCHANGED <<jobVars, recVars, resVars, segVars>>

\* fileStream.write(chunk): the stream writes at its own offset into the
\* file it opened, wherever that file has been moved since
WriteAt(f, offset, len) ==
  [f EXCEPT !.size = IF offset + len > @ THEN offset + len ELSE @]

\* response 'data' event: the abort check on the manager's current
\* controller (destroy drops what the stream has buffered), then the chunk
\* is handed to the write stream, which buffers it
DataChunk(d, len) ==
  /\ dlPc[d] = "transferring"
  /\ chunks[d] < MaxChunks
  /\ chunks' = [chunks EXCEPT ![d] = @ + 1]
  /\ IF downloadController.aborted
       THEN /\ DlFail(d, "Download cancelled")
            /\ fileStream' = [fileStream EXCEPT ![d] = "none"]
            /\ pending' = [pending EXCEPT ![d] = 0]
            /\ UNCHANGED receivedBytes
       ELSE /\ receivedBytes' = [receivedBytes EXCEPT ![d] = @ + len]
            /\ pending' = [pending EXCEPT ![d] = @ + len]
            /\ Report(d, "downloading")
            /\ UNCHANGED <<dlPc, dlError, fileStream>>
  /\ UNCHANGED <<arch, downloadController, tempFile, finalFile, cancelled,
                 finalTouched>>
  /\ UNCHANGED <<jobVars, recVars, resVars, segVars>>

\* the write stream of call d writes what it has buffered, at its own
\* offset; a stream that was ended closes once its buffer is empty
StreamFlushed(d) ==
  /\ pending[d] > 0
  /\ tempFile' = IF fileStream[d] = "temp"
                   THEN WriteAt(tempFile, receivedBytes[d] - pending[d], pending[d])
                   ELSE tempFile
  /\ finalFile' = IF fileStream[d] = "final"
                    THEN WriteAt(finalFile, receivedBytes[d] - pending[d], pending[d])
                    ELSE finalFile
  /\ pending' = [pending EXCEPT ![d] = 0]
  /\ fileStream' = IF dlPc[d] = "transferring"
                     THEN fileStream
                     ELSE [fileStream EXCEPT ![d] = "none"]
  /\ finalTouched' = [finalTouched EXCEPT ![d] =
                        @ \/ (dlPc[d] = "transferring" /\ fileStream[d] = "final")]
  /\ UNCHANGED <<arch, dlPc, downloadController, receivedBytes, chunks,
                 dlLog, dlError, cancelled>>
  /\ UNCHANGED <<jobVars, recVars, resVars, segVars>>

\* response 'error' event
ResponseError(d) ==
  /\ dlPc[d] = "transferring"
  /\ DlFail(d, "response error")
  /\ fileStream' = [fileStream EXCEPT ![d] = "none"]
  /\ pending' = [pending EXCEPT ![d] = 0]
  /\ UNCHANGED <<arch, downloadController, tempFile, finalFile,
                 receivedBytes, chunks, cancelled, finalTouched>>
  /\ UNCHANGED <<jobVars, recVars, resVars, segVars>>

\* response 'end' event: fileStream.end() and resolve() at once, without
\* waiting for the stream to finish; downloadFFmpeg reports 'extracting'
\* and awaits the move
ResponseEnd(d) ==
  /\ dlPc[d] = "transferring"
  /\ dlPc' = [dlPc EXCEPT ![d] = "moving"]
  /\ fileStream' = IF pending[d] = 0
                     THEN [fileStream EXCEPT ![d] = "none"]
                     ELSE fileStream
  /\ Report(d, "extracting")
  /\ UNCHANGED <<arch, downloadController, tempFile, finalFile,
                 receivedBytes, pending, chunks, dlError, cancelled,
                 finalTouched>>
  /\ UNCHANGED <<jobVars, recVars, resVars, segVars>>

\* fs.move(tempPath, ffmpegPath, {overwrite: true}) done, or it throws
\* because ffmpeg.tmp is not there; a stream still open on the moved file
\* follows it, one open on the replaced file loses it
MoveDone(d) ==
  /\ dlPc[d] = "moving"
  /\ IF tempFile.exists
       THEN /\ finalFile' = tempFile
            /\ tempFile' = NoFile
            /\ fileStream' = [e \in DlIds |->
                 IF fileStream[e] = "temp" THEN "final"
                 ELSE IF fileStream[e] = "final" THEN "unlinked"
                 ELSE fileStream[e]]
            /\ UNCHANGED dlError
            /\ IF platform # "win32"
                 THEN dlPc' = [dlPc EXCEPT ![d] = "chmod"] /\ UNCHANGED dlLog
                 ELSE dlPc' = [dlPc EXCEPT ![d] = "verifying"]
                      /\ Report(d, "verifying")
       ELSE /\ DlFail(d, "ENOENT")
            /\ UNCHANGED <<finalFile, tempFile, fileStream>>
  /\ UNCHANGED <<arch, downloadController, receivedBytes, pending, chunks,
                 cancelled, finalTouched>>
  /\ UNCHANGED <<jobVars, recVars, resVars, segVars>>

\* fs.chmod(ffmpegPath, 0o755) done
ChmodDone(d) ==
  /\ dlPc[d] = "chmod"
  /\ finalFile' = [finalFile EXCEPT !.exec = TRUE]
  /\ dlPc' = [dlPc EXCEPT ![d] = "verifying"]
  /\ Report(d, "verifying")
  /\ UNCHANGED <<arch, downloadController, tempFile, fileStream,
                 receivedBytes, pending, chunks, dlError, cancelled,
                 finalTouched>>
  /\ UNCHANGED <<jobVars, recVars, resVars, segVars>>

\* isFFmpegValid resolves: 'complete' and the path, or the verification
\* error
VerifyDone(d) ==
  /\ dlPc[d] = "verifying"
  /\ IF isFFmpegValid
       THEN /\ dlPc' = [dlPc EXCEPT ![d] = "complete"]
            /\ Report(d, "complete")
            /\ UNCHANGED dlError
       ELSE DlFail(d, "FFmpeg verification failed")
  /\ UNCHANGED <<arch, downloadController, tempFile, finalFile, fileStream,
                 receivedBytes, pending, chunks, cancelled, finalTouched>>
  /\ UNCHANGED <<jobVars, recVars, resVars, segVars>>

\* 'cancel-ffmpeg-download': this.downloadController?.abort()
\* (a call that changes nothing is left out)
CancelDownload ==
  /\ \E d \in DlIds : InProgress(d)
  /\ \/ downloadController.owner # NoId /\ ~downloadController.aborted
     \/ \E d \in DlIds : InTransfer(d) /\ ~cancelled[d]
  /\ downloadController' =
       IF downloadController.owner = NoId
         THEN downloadController
         ELSE [downloadController EXCEPT !.aborted = TRUE]
  /\ cancelled' = [d \in DlIds |-> cancelled[d] \/ InTransfer(d)]
  /\ UNCHANGED <<arch, dlPc, tempFile, finalFile, fileStream, receivedBytes,
                 pending, chunks, dlLog, dlError, finalTouched>>
  /\ UNCHANGED <<jobVars, recVars, resVars, segVars>>

\* the value the 'download-ffmpeg' handler returns for call d: the path
\* from its try block, the error message from its catch block
downloadFfmpegHandler(d) ==
  IF dlPc[d] = "complete"
    THEN [returned |-> TRUE, success |-> TRUE, error |-> NULL]
  ELSE IF dlPc[d] = "failed"
    THEN [returned |-> TRUE, success |-> FALSE, error |-> dlError[d]]
  ELSE [returned |-> FALSE, success |-> FALSE, error |-> NULL]

DlNext ==
  \/ \E d \in DlIds : DownloadFFmpeg(d)
  \/ \E d \in DlIds : EnsureDirDone(d)
  \/ \E d \in DlIds : RequestError(d)
  \/ \E d \in DlIds : \E statusCode \in {200, 404} : Response(d, statusCode)
  \/ \E d \in DlIds : \E len \in ChunkSizes : DataChunk(d, len)
  \/ \E d \in DlIds : StreamFlushed(d)
  \/ \E d \in DlIds : ResponseError(d)
  \/ \E d \in DlIds : ResponseEnd(d)
  \/ \E d \in DlIds : MoveDone(d)
  \/ \E d \in DlIds : ChmodDone(d)
  \/ \E d \in DlIds : VerifyDone(d)
  \/ CancelDownload

\* ========================================================================
\* GeminiService: segment files of overlapping transcribeAudio calls
\* ========================================================================
JobIds == 1 .. MaxJobs

\* base names of the recordings in the recordings directory
Sources == {"meeting_a", "meeting_b"}

\* `${baseName}_segment_%03d${ext}` in the directory of the source
segmentPath(baseName, k) == <<baseName, "_segment_", k>>

SegPaths == {segmentPath(b, k) : b \in Sources, k \in 0 .. (FilesPerSplit - 1)}

\* file.startsWith(`${baseName}_segment_`) && file.endsWith(ext)
MatchesSource(f, baseName) == f[1] = baseName /\ f[2] = "_segment_"

SegInit ==
  /\ tjPc = [j \in JobIds |-> "idle"]
  /\ tjSource = [j \in JobIds |-> NULL]
  /\ tjFiles = [j \in JobIds |-> {}]
  /\ tjUnread = [j \in JobIds |-> {}]
  /\ disk = [f \in SegPaths |-> NoId]
  /\ foreign = [j \in JobIds |-> {}]

TjActive(j) == j # NoId /\ tjPc[j] \in {"splitting", "transcribing"}

\* the files of fs that were created by a call other than j that is
\* still running
OfAnother(j, fs) == {f \in fs : disk[f] # j /\ TjActive(disk[f])}

Accessed(j, fs, kind) ==
  foreign' = [foreign EXCEPT ![j] =
                IF OfAnother(j, fs) # {} THEN @ \cup {kind} ELSE @]

\* 'transcribe-audio' for a long recording: transcribeAudio runs up to the
\* exec of the ffmpeg segmenter
TjStart(j, baseName) ==
  /\ tjPc[j] = "idle"
  /\ \A b \in JobIds : b < j => tjPc[b] # "idle"
  /\ tjPc' = [tjPc EXCEPT ![j] = "splitting"]
  /\ tjSource' = [tjSource EXCEPT ![j] = baseName]
  /\ UNCHANGED <<tjFiles, tjUnread, disk, foreign>>
  /\ UNCHANGED <<jobVars, recVars, dlVars, resVars>>

\* the segmenter has written its files (a file already there is written
\* over); readdirSync lists every file of the directory that matches the
\* base name
TjSplitDone(j) ==
  /\ tjPc[j] = "splitting"
  /\ LET written == {segmentPath(tjSource[j], k) : k \in 0 .. (FilesPerSplit - 1)}
         after == [f \in SegPaths |->
                    IF f \in written /\ disk[f] = NoId THEN j ELSE disk[f]]
         listed == {f \in SegPaths :
                      after[f] # NoId /\ MatchesSource(f, tjSource[j])}
     IN /\ disk' = after
        /\ tjFiles' = [tjFiles EXCEPT ![j] = listed]
        /\ tjUnread' = [tjUnread EXCEPT ![j] = listed]
        /\ Accessed(j, written, "overwrite")
  /\ tjPc' = [tjPc EXCEPT ![j] = "transcribing"]
  /\ UNCHANGED tjSource
  /\ UNCHANGED <<jobVars, recVars, dlVars, resVars>>

\* transcribeSingleSegment: fs.readFileSync(segmentPath) (it throws, and
\* the attempt fails, when the file is gone)
TjRead(j, f) ==
  /\ tjPc[j] = "transcribing"
  /\ f \in tjUnread[j]
  /\ tjUnread' = [tjUnread EXCEPT ![j] = @ \ {f}]
  /\ Accessed(j, {f}, "read")
  /\ UNCHANGED <<tjPc, tjSource, tjFiles, disk>>
  /\ UNCHANGED <<jobVars, recVars, dlVars, resVars>>

\* the clean-up of getSegmentedTranscript: fs.unlinkSync of every listed
\* file
TjCleanup(j) ==
  /\ tjPc[j] = "transcribing"
  /\ tjUnread[j] = {}
  /\ disk' = [f \in SegPaths |-> IF f \in tjFiles[j] THEN NoId ELSE disk[f]]
  /\ Accessed(j, tjFiles[j], "delete")
  /\ tjPc' = [tjPc EXCEPT ![j] = "done"]
  /\ UNCHANGED <<tjSource, tjFiles, tjUnread>>
  /\ UNCHANGED <<jobVars, recVars, dlVars, resVars>>

SegNext ==
  \/ \E j \in JobIds : \E baseName \in Sources : TjStart(j, baseName)
  \/ \E j \in JobIds : TjSplitDone(j)
  \/ \E j \in JobIds : \E f \in SegPaths : TjRead(j, f)
  \/ \E j \in JobIds : TjCleanup(j)

\* ========================================================================
\* Resolution of the FFmpeg binary
\* ========================================================================
Range(q) == {q[k] : k \in 1 .. Len(q)}

\* the first path of q at which a file exists, NULL when there is none
FirstExisting(q, exists) ==
  IF \E k \in 1 .. Len(q) : q[k] \in exists
    THEN q[CHOOSE k \in 1 .. Len(q) :
             q[k] \in exists /\ \A j \in 1 .. (k - 1) : q[j] \notin exists]
    ELSE NULL

\* require('ffmpeg-static')
staticPath == "node_modules/ffmpeg-static/ffmpeg"

\* possiblePaths of findFFmpegBinary, in the order they are tried
possiblePaths(plat) ==
  <<"resources/bin/ffmpeg", "resources/ffmpeg",
    "resources/app.asar.unpacked/node_modules/ffmpeg-static/ffmpeg",
    "resources/app.asar.unpacked/node_modules/ffmpeg-static/bin/ffmpeg">>
  \o (IF plat = "darwin"
        THEN <<"app/../../Resources/bin/ffmpeg", "app/../../Resources/ffmpeg">>
      ELSE IF plat = "win32"
        THEN <<"exe/resources/bin/ffmpeg", "exe/resources/ffmpeg">>
      ELSE <<>>)

\* findFFmpegBinary: ffmpeg-static in development, then the first of the
\* bundled locations that exists
findFFmpegBinary(exists, plat, packaged) ==
  IF ~packaged /\ staticPath \in exists
    THEN staticPath
    ELSE FirstExisting(possiblePaths(plat), exists)

\* the system locations getFFmpegPath of the recorder tries
RecorderSystemPaths(plat) ==
  IF plat = "darwin"
    THEN <<"/opt/homebrew/bin/ffmpeg", "/usr/local/bin/ffmpeg", "/usr/bin/ffmpeg">>
  ELSE IF plat = "win32"
    THEN <<"C:/ffmpeg/bin/ffmpeg.exe", "C:/Program Files/ffmpeg/bin/ffmpeg.exe",
           "C:/Program Files (x86)/ffmpeg/bin/ffmpeg.exe",
           "LOCALAPPDATA/ffmpeg/bin/ffmpeg.exe">>
  ELSE <<>>

\* the locations findSystemFFmpeg of the manager tries
ManagerSystemPaths(plat) ==
  IF plat = "darwin"
    THEN <<"/opt/homebrew/bin/ffmpeg", "/usr/local/bin/ffmpeg", "/usr/bin/ffmpeg">>
  ELSE IF plat = "win32"
    THEN <<"C:/Program Files/ffmpeg/bin/ffmpeg.exe", "C:/ffmpeg/bin/ffmpeg.exe">>
  ELSE <<"/usr/bin/ffmpeg", "/usr/local/bin/ffmpeg">>

\* what `where ffmpeg` / `which ffmpeg` prints
PathLookup == IF inPath THEN "PATH/ffmpeg" ELSE NULL

\* the bare command name both resolvers fall back to
FFmpegCommand == "ffmpeg"

\* SimpleAudioRecorder.getFFmpegPath
RecorderGetFFmpegPath ==
  IF ffmpegPath # NULL /\ ffmpegPath \in existing
    THEN ffmpegPath
  ELSE IF FirstExisting(RecorderSystemPaths(platform), existing) # NULL
    THEN FirstExisting(RecorderSystemPaths(platform), existing)
  ELSE IF platform = "win32" /\ PathLookup # NULL
    THEN PathLookup
  ELSE IF ffmpegPath # NULL
    THEN ffmpegPath
  ELSE FFmpegCommand

\* FFmpegManager.findSystemFFmpeg
findSystemFFmpeg ==
  IF FirstExisting(ManagerSystemPaths(platform), existing) # NULL
    THEN FirstExisting(ManagerSystemPaths(platform), existing)
    ELSE PathLookup

ManagedPath == "userData/ffmpeg/ffmpeg"

\* FFmpegManager.ensureFFmpeg: the downloaded binary when it is valid, else
\* a system one, else null
ensureFFmpeg ==
  IF isFFmpegValid THEN ManagedPath ELSE findSystemFFmpeg

\* GeminiService.getFFmpegPath
ServiceGetFFmpegPath ==
  IF ensureFFmpeg # NULL THEN ensureFFmpeg ELSE FFmpegCommand

\* every path one of the resolvers looks at
KnownPaths(plat) ==
  {staticPath} \cup Range(possiblePaths(plat))
    \cup Range(RecorderSystemPaths(plat)) \cup Range(ManagerSystemPaths(plat))

NoResolution == [by |-> "none", path |-> NULL]

\* module load of simpleAudioRecorder.ts: ffmpegPath = findFFmpegBinary()
ResInit ==
  /\ isPackaged \in BOOLEAN
  /\ existing \in SUBSET KnownPaths(platform)
  /\ inPath \in BOOLEAN
  /\ ffmpegPath = findFFmpegBinary(existing, platform, isPackaged)
  /\ resolved = NoResolution

\* the recorder resolves the binary (device detection, startRecording)
RecorderResolves ==
  /\ resolved' = [by |-> "recorder", path |-> RecorderGetFFmpegPath]
  /\ UNCHANGED <<isPackaged, existing, inPath, ffmpegPath>>
  /\ UNCHANGED <<jobVars, recVars, dlVars, segVars>>

\* the transcription service resolves the binary (duration probe, split)
ServiceResolves ==
  /\ resolved' = [by |-> "service", path |-> ServiceGetFFmpegPath]
  /\ UNCHANGED <<isPackaged, existing, inPath, ffmpegPath>>
  /\ UNCHANGED <<jobVars, recVars, dlVars, segVars>>

ResNext ==
  \/ RecorderResolves
  \/ ServiceResolves

\* ========================================================================
\* Specifications
\* ========================================================================
vars == <<jobVars, recVars, dlVars, resVars, segVars>>

RecIdle ==
  /\ RecInit
  /\ platform = "linux"

DlIdle ==
  /\ DlInit
  /\ arch = "x64"
  /\ finalFile = NoFile

JobIdle ==
  /\ JobInit
  /\ fileSizeMB = 4

ResIdle ==
  /\ ResInit
  /\ isPackaged
  /\ existing = {}
  /\ ~inPath

JobSpecInit == JobInit /\ RecIdle /\ DlIdle /\ ResIdle /\ SegInit

JobSpec == JobSpecInit /\ [][JobNext]_vars

\* every client call returns or fails, timers fire, continuations run
JobFairSpec ==
  /\ JobSpec
  /\ \A i \in SegIdx :
       /\ WF_vars(TranscribeFails(i) \/ \E text \in ClientTexts(i) : TranscribeSucceeds(i, text))
       /\ WF_vars(RetryTimer(i))
  /\ WF_vars(MergeSegments)

RecSpecInit == RecInit /\ JobIdle /\ DlIdle /\ ResIdle /\ SegInit

RecSpec == RecSpecInit /\ [][RecNext]_vars

DlSpecInit ==
  /\ RecInit
  /\ micAccess = "granted"
  /\ JobIdle
  /\ DlInit
  /\ ResIdle
  /\ SegInit

DlSpec == DlSpecInit /\ [][DlNext]_vars

\* one downloadFFmpeg call, from every installation state
DlOneNext ==
  \/ DownloadFFmpeg(1)
  \/ \E d \in DlIds : EnsureDirDone(d)
  \/ \E d \in DlIds : RequestError(d)
  \/ \E d \in DlIds : \E statusCode \in {200, 404} : Response(d, statusCode)
  \/ \E d \in DlIds : \E len \in ChunkSizes : DataChunk(d, len)
  \/ \E d \in DlIds : StreamFlushed(d)
  \/ \E d \in DlIds : ResponseError(d)
  \/ \E d \in DlIds : ResponseEnd(d)
  \/ \E d \in DlIds : MoveDone(d)
  \/ \E d \in DlIds : ChmodDone(d)
  \/ \E d \in DlIds : VerifyDone(d)
  \/ CancelDownload

DlOneSpec == DlSpecInit /\ [][DlOneNext]_vars

ResSpecInit ==
  /\ RecInit
  /\ micAccess = "granted"
  /\ JobIdle
  /\ DlInit
  /\ arch = "x64"
  /\ ResInit
  /\ SegInit

SegSpecInit == SegInit /\ JobIdle /\ RecIdle /\ DlIdle /\ ResIdle

SegSpec == SegSpecInit /\ [][SegNext]_vars

ResSpec == ResSpecInit /\ [][ResNext]_vars

\* ========================================================================
\* Properties of the transcription job
\* ========================================================================
Merged == N >= 1 /\ summaryCalls = 1

SegmentNoOf(content) ==
  IF content.kind = "failed" THEN content.segmentNo ELSE content.header.segmentNo

\* C1: whatever the order in which the segment tasks settle (retries and
\* exhausted segments included), the merged transcript holds exactly one
\* content per segment and the content at position k is the one produced
\* for original index k - 1.
C1_TranscriptInIndexOrder ==
  Merged =>
    /\ Len(fullTranscript) = N
    /\ \A k \in 1 .. N :
         /\ SegmentNoOf(fullTranscript[k]) = k
         /\ fullTranscript[k] = promises[k - 1].value.content

C1_Witness ==
  /\ Merged
  /\ N >= 2
  /\ firstSettled \in {<<i>> : i \in 1 .. (N - 1)}
  /\ \E i \in 0 .. (N - 1) : seg[i].state = "Done" /\ seg[i].attempt > 1
  /\ \E i \in 0 .. (N - 1) : seg[i].state = "Failed"

\* C2: in the merged transcript the slot of a segment whose client calls
\* all failed holds the placeholder of that index, and the slot of every
\* segment that had a successful call holds its header and the text the
\* client returned for it.
C2_PlaceholderOnlyInOwnSlot ==
  Merged =>
    \A i \in 0 .. (N - 1) :
      /\ (seg[i].ok = 0 /\ seg[i].failed = seg[i].calls) =>
           fullTranscript[i + 1] =
             [kind |-> "failed", segmentNo |-> i + 1, attempts |-> 3]
      /\ seg[i].ok = 1 =>
           /\ fullTranscript[i + 1].kind = "text"
           /\ fullTranscript[i + 1].header.segmentNo = i + 1
           /\ fullTranscript[i + 1].text = seg[i].text

C2_Witness ==
  /\ Merged
  /\ \E i, j \in 0 .. (N - 1) :
       /\ i < j
       /\ seg[j].state = "Failed" /\ seg[j].failed = 3
       /\ seg[i].state = "Done" /\ seg[i].text = <<"speech", i>>
       /\ firstSettled = <<j>>

C4_SegmentsSettleAndJobProceeds ==
  (jobPc = "awaiting") ~> (AllSettled /\ ~AnyRejected /\ summaryCalls = 1)

C4_Witness ==
  /\ Merged
  /\ N >= 2
  /\ \A i \in 0 .. (N - 1) : seg[i].state = "Failed"
  /\ jobPc = "summarizing"

\* p <= q for percents kept as fractions <<num, den>>
PercentLeq(p, q) == p[1] * q[2] <= q[1] * p[2]

\* the percents the claim lists for a finished job
ListedProgress ==
  IF N = 0
    THEN <<Percent(15), Percent(20)>>
           \o (IF fileSizeMB > 20 THEN <<Percent(25)>> ELSE <<>>)
           \o <<Percent(50), Percent(85), Percent(95)>>
    ELSE <<Percent(15), Percent(20)>>
           \o [k \in 1 .. N |-> <<20 * N + 60 * k, N>>]
           \o <<Percent(80), Percent(85), Percent(95)>>

\* C12: the percents passed to the progress callback never decrease within
\* a job, and a job that returns has reported exactly 15, 20, [25], 50, 85,
\* 95 (short path) or 15, 20, 20 + 60k/N for k = 1..N, 80, 85, 95
\* (segmented path), whatever the completion order.
C12_ProgressMonotonic ==
  /\ \A k \in 1 .. (Len(progressLog) - 1) :
       PercentLeq(progressLog[k], progressLog[k + 1])
  /\ jobPc = "done" => progressLog = ListedProgress

C12_Witness ==
  /\ jobPc = "done"
  /\ N >= 2
  /\ firstSettled \in {<<i>> : i \in 1 .. (N - 1)}
  /\ \E i \in 0 .. (N - 1) : seg[i].attempt > 1

\* C13: once a segmented job has merged, returned or failed, none of its
\* segment files is on disk.
C13_SegmentFilesDeleted ==
  (splitCalls > 0 /\ jobPc \in {"summarizing", "done", "error"}) =>
    \A i \in SegIdx : ~fileExists[i]

\* C14: the summarization call is issued at most once, never while a
\* segment call is in flight or waiting for a retry, only once every
\* segment is Done or Failed and the merged transcript is built, and a job
\* that got as far as the summary has issued it exactly once.
C14_SummaryOnceAfterAllSegments ==
  /\ summaryCalls <= 1
  /\ (\E i \in 0 .. (N - 1) : seg[i].state \in {"InFlight", "Backoff"}) =>
       summaryCalls = 0
  /\ summaryCalls = 1 =>
       /\ \A i \in 0 .. (N - 1) : seg[i].state \in {"Done", "Failed"}
       /\ Len(fullTranscript) = IF N = 0 THEN 1 ELSE N
  /\ jobPc \in {"summarizing", "done"} => summaryCalls = 1

C14_Witness ==
  /\ jobPc = "done"
  /\ summaryCalls = 1
  /\ N >= 2
  /\ \E i \in 0 .. (N - 1) : seg[i].state = "Failed"
  /\ \E i \in 0 .. (N - 1) : seg[i].state = "Done"

\* C15: for a merged job of duration > 300 s the number of segments is
\* ceil(duration / 300) and every segment k of the merged transcript
\* carries the time-range header [300(k-1), min(300k, duration)], with
\* start < end, so that the headers cover [0, duration] without gap.
C15_HeadersPartitionDuration ==
  (Merged /\ duration > 300) =>
    /\ (N - 1) * 300 < duration /\ duration <= N * 300
    /\ \A k \in 1 .. N :
         /\ fullTranscript[k].kind = "text"
         /\ fullTranscript[k].header.from = formatTime(300 * (k - 1))
         /\ fullTranscript[k].header.to =
              formatTime(IF 300 * k < duration THEN 300 * k ELSE duration)
         /\ 300 * (k - 1) < duration

\* C16: when the probed duration is <= 300 s (300 and 0 included) the
\* splitter is never invoked, no segment exists, every transcription call
\* is on the whole source file, at most one is made, and exactly one has
\* been made once the call is in flight or has returned.
C16_ShortAudioNotSplit ==
  (jobPc \notin {"idle", "probing"} /\ duration <= 300) =>
    /\ splitCalls = 0
    /\ N = 0
    /\ BagCardinality(submissions) <= 1
    /\ \A s \in BagToSet(submissions) : s.file = "source"
    /\ jobPc \in {"shortInFlight", "summarizing", "done"} =>
         BagCardinality(submissions) = 1

C16_Witness ==
  /\ jobPc = "done"
  /\ duration = 300
  /\ BagCardinality(submissions) = 1

\* C17: every transcription call on a file larger than 20 MB, whole file
\* or segment, passes the audio by reference to an uploaded file and never
\* inline.
C17_LargeFilesUseUpload ==
  \A s \in BagToSet(submissions) :
    s.sizeMB > 20 => s.mode = "fileData"

\* C18: the generation call that references the uploaded file is issued
\* only when the last polled state is ACTIVE; the state is queried at most
\* 30 times after the first query, and again only after PROCESSING; when
\* polling ends on another state the job fails without a generation call.
C18_GenerationOnlyWhenActive ==
  /\ fileGets <= 31
  /\ retries <= 30
  /\ jobPc = "pollWait" => fileState = "PROCESSING"
  /\ \A s \in BagToSet(submissions) :
       s.mode = "fileData" => fileState = "ACTIVE"
  /\ (fileState \in {"PROCESSING", "FAILED"}
        /\ jobPc \notin {"polling", "pollWait"}) =>
       (jobPc = "error" /\ submissions = EmptyBag)

C18_Witness ==
  /\ fileGets = 31
  /\ fileState = "ACTIVE"
  /\ jobPc = "done"
  /\ \E s \in BagToSet(submissions) : s.mode = "fileData"

\* C19: when the summarization response is not the structured object, the
\* job returns a result whose summary is what the text scan finds, whose
\* keyPoints and actionItems are empty lists and whose transcript is the
\* merged transcript; the job does not fail.
C19_ParseFailureDegrades ==
  summaryText \in (SummaryResponses \ {"object"}) =>
    /\ jobPc = "done"
    /\ result.returned
    /\ result.summary = summaryMatch(summaryText)
    /\ result.keyPoints = <<>>
    /\ result.actionItems = <<>>
    /\ result.transcript = fullTranscript

\* C22: while transcription calls overlap, none of them overwrites, reads
\* or deletes a segment file created by another call that is still
\* running.
C22_SegmentFilesNotShared ==
  \A j \in JobIds : foreign[j] = {}

\* ========================================================================
\* Properties of the recorder
\* ========================================================================

\* C5: a start command issued while a session is active is rejected and
\* leaves the session alone: it spawns no subprocess, takes neither the
\* recorder's process handle nor its output path, and returns failure.
C5_SecondStartRejected ==
  \A c \in CallIds :
    startCall[c].activeAtEntry =>
      /\ proc[c].state = "unspawned"
      /\ recordingProcess # c
      /\ outputPath # c
      /\ startCall[c].pc = "returned" => ~startCall[c].success

\* C6: a stopRecording called after the capture subprocess had already
\* exited abnormally never returns success.
C6_StopAfterAbnormalExitFails ==
  \A s \in StopIds :
    (stopCall[s].pc = "returned" /\ stopCall[s].abnormalExitAtCall) =>
      ~stopCall[s].success

\* C7: stopRecording returns success only if the output file exists and is
\* non-empty at that moment.
C7_SuccessOnlyWithNonEmptyFile ==
  \A s \in StopIds :
    (stopCall[s].pc = "returned" /\ stopCall[s].success) =>
      stopCall[s].fileAtReturn = "nonempty"

\* C8: a subprocess is sent the forced terminate only after it was sent the
\* quit request, and only by the fallback timer of a stopRecording that is
\* stopping that very subprocess (which has not closed by then).
C8_QuitBeforeForcedTerminate ==
  \A p \in CallIds :
    killed(p) =>
      /\ proc[p].gotQ
      /\ stopCall[proc[p].killedBy].target = p

\* C20: on a platform that enumerates devices, a start call whose device
\* list came out empty spawns no capture subprocess, substitutes no
\* device, and returns failure.
C20_EmptyDeviceListFails ==
  \A c \in CallIds :
    startCall[c].emptyList =>
      /\ proc[c].state = "unspawned"
      /\ startCall[c].audioDevice = ""
      /\ startCall[c].pc = "returned"
      /\ ~startCall[c].success

\* the subprocess of a session that had started exited without having
\* been asked to quit
DiedWhileRecording(p) ==
  /\ startCall[p].pc = "returned"
  /\ startCall[p].success
  /\ proc[p].state = "exited"
  /\ ~proc[p].gotQ

\* C24: once the subprocess of a started session has exited on its own,
\* the recorder no longer holds it as its recording process, and no
\* stopRecording waits on it or arms the forced terminate for it.
C24_DeadSessionNotActive ==
  /\ \A p \in CallIds : DiedWhileRecording(p) => recordingProcess # p
  /\ \A s \in StopIds :
       \A p \in CallIds :
         (stopCall[s].target = p /\ stopCall[s].pc = "waiting") =>
           proc[p].state = "running"

C25_Step(c) ==
  (startCall[c].pc = "grace" /\ startCall'[c].pc = "returned") =>
    IF startCall'[c].success
      THEN /\ ~startCall[c].startupError
           /\ proc[c].state = "running"
           /\ proc[c].exitCode = NoExit
      ELSE recordingProcess' = NoId

\* C25: at the end of the 500 ms wait startRecording returns success only
\* if no startup error was observed and its subprocess is still running;
\* otherwise it returns failure and the recorder holds no process.
C25_SuccessOnlyIfRunningAfterGrace ==
  [][\A c \in CallIds : C25_Step(c)]_vars

\* C27: the forced terminate sent by the fallback timer of a stopRecording
\* call only ever goes to the subprocess that call was stopping, never to
\* the subprocess of a session started since.
C27_TimerSignalsOwnSession ==
  \A s \in StopIds :
    \A p \in CallIds :
      proc[p].killedBy = s => stopCall[s].target = p

NoCommandInFlight ==
  /\ \A c \in CallIds : startCall[c].pc \in {"none", "returned"}
  /\ \A s \in StopIds : stopCall[s].pc \in {"none", "returned"}

\* C28: whenever no start or stop command is in flight, the renderer's
\* isRecording flag is true exactly when the recorder holds a capture
\* process.
C28_FlagMatchesHandle ==
  NoCommandInFlight => (isRecording <=> recordingProcess # NoId)

\* C30: once startRecording has returned failure, the subprocess it had
\* spawned is not running.
C30_FailedStartLeavesNoProcess ==
  \A c \in CallIds :
    (startCall[c].pc = "returned" /\ ~startCall[c].success) =>
      proc[c].state # "running"

\* ========================================================================
\* Properties of the download
\* ========================================================================
Finished(d) == dlPc[d] \in {"complete", "failed"}

CancelledInTransfer(d) == cancelled[d]

\* C9: once a download during whose transfer cancelDownload was called has
\* finished, the file at the final path is not a valid binary.
C9_CancelLeavesNoValidBinary ==
  \A d \in DlIds :
    (CancelledInTransfer(d) /\ Finished(d)) => ~isFFmpegValid

\* C10: a download during whose transfer cancelDownload was called ends
\* with an error and never reports 'complete'.
C10_CancelAbortsTransfer ==
  \A d \in DlIds :
    (CancelledInTransfer(d) /\ Finished(d)) =>
      /\ dlPc[d] = "failed"
      /\ \A k \in 1 .. Len(dlLog[d]) : dlLog[d][k] # "complete"

\* C11: at most one download transfer is in flight at any time, and the
\* controller that cancelDownload aborts is the one of that transfer.
C11_AtMostOneTransfer ==
  /\ \A d, e \in DlIds : (InTransfer(d) /\ InTransfer(e)) => d = e
  /\ \A d \in DlIds : InTransfer(d) => downloadController.owner = d

\* the error of call d has been surfaced: the handler returned
\* {success: false, error} and 'error' is the last, and only the last,
\* status reported
Surfaced(d) ==
  /\ downloadFfmpegHandler(d) =
       [returned |-> TRUE, success |-> FALSE, error |-> dlError[d]]
  /\ dlError[d] # NULL
  /\ Len(dlLog[d]) >= 1
  /\ \A k \in 1 .. Len(dlLog[d]) :
       dlLog[d][k] = "error" <=> k = Len(dlLog[d])

C21_Step(d) ==
  /\ (dlPc[d] = "idle" /\ dlPc'[d] # "idle"
        /\ getRelease(platform, arch) = NULL) =>
       (Surfaced(d)' /\ dlError'[d] = "No FFmpeg release available")
  /\ (dlPc[d] = "requesting"
        /\ dlPc'[d] \notin {"requesting", "transferring"}) =>
       (Surfaced(d)'
          /\ dlError'[d] \in {"net error", "Download failed with status"})
  /\ (dlPc[d] = "verifying" /\ dlPc'[d] # "verifying" /\ ~isFFmpegValid) =>
       (Surfaced(d)' /\ dlError'[d] = "FFmpeg verification failed")
  /\ (dlPc'[d] = "failed" \/ dlError'[d] # NULL) => Surfaced(d)'

\* C21: a download call that meets a failure mode (no release for the
\* platform and architecture, request error, non-200 response, invalid
\* file after the move) ends with that error, which the handler returns
\* as {success: false, error}, and its last progress report, and only
\* that one, has status 'error'.
C21_FailuresSurfaceAsErrors ==
  [][\A d \in DlIds : C21_Step(d)]_vars

C21_Witness ==
  \E d \in DlIds :
    /\ dlError[d] = "FFmpeg verification failed"
    /\ dlLog[d] = <<"preparing", "downloading", "downloading", "extracting",
                    "verifying", "error">>
    /\ downloadFfmpegHandler(d).error = "FFmpeg verification failed"

\* call d ended with an error raised before its move step
FailedBeforeMove(d) ==
  /\ dlPc[d] = "failed"
  /\ dlError[d] \in {"No FFmpeg release available", "net error",
                      "Download failed with status", "response error",
                      "Download cancelled"}

\* C29: a download call that failed or was cancelled before its move step
\* has not changed the file at the final path: it neither wrote into it
\* nor replaced it.
C29_FailedRunLeavesFinalFile ==
  \A d \in DlIds : FailedBeforeMove(d) => ~finalTouched[d]

\* position of a status in preparing, downloading, extracting, verifying,
\* complete
StatusRank(status) ==
  CASE status = "preparing" -> 1
    [] status = "downloading" -> 2
    [] status = "extracting" -> 3
    [] status = "verifying" -> 4
    [] status = "complete" -> 5
    [] OTHER -> 6

\* log is a run of the listed order, 'error' only at its end
StatusesInOrder(log) ==
  /\ Len(log) >= 1 => log[1] \in {"preparing", "error"}
  /\ \A k \in 1 .. (Len(log) - 1) :
       /\ log[k] \notin {"error", "complete"}
       /\ \/ log[k + 1] = "error"
          \/ log[k] = "downloading" /\ log[k + 1] = "downloading"
          \/ StatusRank(log[k + 1]) = StatusRank(log[k]) + 1
          \/ log[k] = "preparing" /\ log[k + 1] = "extracting"

C26_Step(d) ==
  /\ StatusesInOrder(dlLog'[d])
  /\ (dlPc[d] = "moving" /\ dlPc'[d] \in {"chmod", "verifying"}) =>
       /\ pending[d] = 0
       /\ tempFile.size = receivedBytes[d]
  /\ (dlPc[d] # "complete" /\ dlPc'[d] = "complete") =>
       /\ dlLog'[d][Len(dlLog'[d])] = "complete"
       /\ finalFile'.exists
       /\ platform # "win32" => finalFile'.exec
       /\ finalFile'.size > 1000000

\* C26: the statuses of a download call are reported in the order
\* preparing, downloading*, extracting, verifying, complete, with 'error'
\* only last; the move is done only when every received byte has been
\* written to the temporary file; and 'complete' is reported only when the
\* file at the final path is executable and larger than 1,000,000 bytes.
C26_MoveAfterAllBytesWritten ==
  [][\A d \in DlIds : C26_Step(d)]_vars

\* ========================================================================
\* Properties of the binary resolution
\* ========================================================================
BundledCandidates ==
  Range(possiblePaths(platform))
    \cup (IF isPackaged THEN {} ELSE {staticPath})

SystemInstalls ==
  Range(RecorderSystemPaths(platform)) \cup Range(ManagerSystemPaths(platform))

\* C23: when a file exists at a bundled candidate path and at a system
\* install path, the path either resolver returns is a bundled one.
C23_BundledBeforeSystem ==
  (/\ resolved.by # "none"
   /\ BundledCandidates \cap existing # {}
   /\ SystemInstalls \cap existing # {}) =>
    resolved.path \in BundledCandidates

====
